---- MODULE Spec2Model ----
(***************************************************************************)
(* Model of package pipes (src/pipes.go): the single-process executor      *)
(* Exec with its wrappers ExecE and ExecO, and the pipeline executor       *)
(* ExecPipeline with its wrappers ExecPipelineE and ExecPipelineO.         *)
(*                                                                         *)
(* One behaviour is one call of ExecO or of ExecPipelineO, which run the   *)
(* whole stack of wrappers.  The orchestrator is sequential (pc, idx); the *)
(* started stages are operating-system processes that run concurrently     *)
(* with it and with each other, writing into bounded pipes.                *)
(***************************************************************************)
EXTENDS Integers, Sequences, FiniteSets, TLC

\* ------------------------------------------------------------------ bounds
MaxCmds == 2        \* longest pipeline len(cmds) explored
PipeCap == 1        \* capacity, in bytes, of every OS pipe buffer
MaxOut  == 2        \* most bytes a stage writes to its standard output

Stages == 0 .. (MaxCmds - 1)

VARIABLES
    api,        \* the public operation called: "ExecO" or "ExecPipelineO"
    n,          \* len(cmds)
    hasStdin,   \* stdin != nil
    pc,         \* position of the orchestrating goroutine
    idx,        \* index of the range loop the orchestrator is in
    err,        \* the local variable err of Exec / ExecPipeline: "nil" or an OS error
    ret,        \* the error value travelling up the wrappers: <<>> is nil
    retBytes,   \* the []byte the O-variant returns
    defers,     \* deferred cleanup closures of ExecPipeline, most recent first
    calls,      \* log of the calls made on the process descriptors, in order
    cmdStdin,   \* cmds[i].Stdin
    cmdStdout,  \* cmds[i].Stdout
    cmdStderr,  \* cmds[i].Stderr
    process,    \* cmds[i].Process != nil
    parentRead, \* the calling process still holds the read end of stage i's output pipe
    procState,  \* OS process of stage i: "none", "running", "exited" (zombie), "reaped"
    exitStatus, \* how the process of stage i ended: "none", "ok", "fail", "killed"
    killSent,   \* kill(pid, SIGKILL) was issued for the process of stage i
    pipeBuf,    \* bytes in flight in the pipe that carries stage i's standard output
    pending,    \* byte of a write(2) of stage i that is blocked on a full pipe, 0 if none
    wrote,      \* every byte stage i has written to its standard output
    recvd,      \* every byte stage i has read from its standard input pipe
    stdoutBuf,  \* the private bytes.Buffer of the O-variant (output)
    stderrBuf   \* what the private error bytes.Buffer of the E-variant held when read

vars == << api, n, hasStdin, pc, idx, err, ret, retBytes, defers, calls,
           cmdStdin, cmdStdout, cmdStderr, process, parentRead,
           procState, exitStatus, killSent, pipeBuf, pending, wrote, recvd,
           stdoutBuf, stderrBuf >>

orchVars == << pc, idx, err, ret, retBytes, defers, calls >>
cmdVars  == << cmdStdin, cmdStdout, cmdStderr >>
procVars == << procState, exitStatus, killSent, pending, wrote, recvd >>
callVars == << api, n, hasStdin >>

\* ----------------------------------------------------------------- helpers
Last == n - 1

\* cmd.Path of stage i: the stage's identity in error texts.
Path(i) == "cmd" \o ToString(i)

\* fmt.Errorf("%s %s", cmd.Path, err): a text is the sequence of its parts.
Errorf(p, e) == << p, " ", e >>

\* The name of the pipe that carries stage i's standard output.
PipeName(i) == "pipe" \o ToString(i)

\* The text stage i writes to its standard error.
Diag(i) == "stderr" \o ToString(i)

\* fmt.Errorf("No commands provided to ExecPipeline")
NoCommands == << "No commands provided to ExecPipeline" >>

\* Variant: the captured text is left out of the error.
ErrorfENoCapture(e, captured) == e \o << " - " >>

\* fmt.Errorf("%s - %s", err.Error(), stderr.String())
ErrorfE(e, captured) == e \o << " - " >> \o captured

Nil == << >>

\* ------------------------------------------------------------------- Init
Init ==
    /\ api \in {"ExecO", "ExecPipelineO"}
    /\ n \in (IF api = "ExecO" THEN {1} ELSE 0 .. MaxCmds)
    /\ hasStdin \in BOOLEAN
    /\ pc = IF api = "ExecO" THEN "EX_attach" ELSE "PL_check"
    /\ idx = 0
    /\ err = "nil"
    /\ ret = Nil
    /\ retBytes = << >>
    /\ defers = << >>
    /\ calls = << >>
    /\ cmdStdin = [i \in Stages |-> "unset"]
    /\ cmdStdout = [i \in Stages |-> "unset"]
    /\ cmdStderr = [i \in Stages |-> "unset"]
    /\ process = [i \in Stages |-> FALSE]
    /\ parentRead = [i \in Stages |-> FALSE]
    /\ procState = [i \in Stages |-> "none"]
    /\ exitStatus = [i \in Stages |-> "none"]
    /\ killSent = [i \in Stages |-> FALSE]
    /\ pipeBuf = [i \in Stages |-> << >>]
    /\ pending = [i \in Stages |-> 0]
    /\ wrote = [i \in Stages |-> << >>]
    /\ recvd = [i \in Stages |-> << >>]
    /\ stdoutBuf = << >>
    /\ stderrBuf = << >>

\* --------------------------------------------- os/exec and the OS, as used
\* Readers of the pipe carrying stage i's output: the next stage while it runs,
\* and the caller, which keeps the read end cmd.StdoutPipe returned until
\* cmd.Wait of stage i closes it.  The last stage's output (a bytes.Buffer) is
\* read by the copying goroutine cmd.Start creates.
ReadersOpen(i) ==
    \/ cmdStdout[i] = "stdout"
    \/ parentRead[i]
    \/ (i + 1 < n /\ procState[i + 1] = "running")

\* Variant: cmd.Wait does not wait for the copying goroutine.
WaitReadyNoCopy(i) == procState[i] = "exited"

\* cmd.Wait of stage i can return: the process has exited and, when its output
\* is copied into a buffer, the copying goroutine has drained the pipe.
WaitReady(i) ==
    /\ procState[i] = "exited"
    /\ (cmdStdout[i] = "stdout" => pipeBuf[i] = << >>)

\* cmd.Wait returned for stage i: the process is reaped and the descriptors
\* kept for the duration of the command (closeAfterWait) are closed.
CmdWaitEffect(i) ==
    /\ procState' = [procState EXCEPT ![i] = "reaped"]
    /\ parentRead' = [parentRead EXCEPT ![i] = FALSE]

\* cmd.Start succeeded for stage i.
CmdStartEffect(i) ==
    /\ procState' = [procState EXCEPT ![i] = "running"]
    /\ process' = [process EXCEPT ![i] = TRUE]

\* kill.Process.Signal(syscall.SIGKILL): a process that was already waited on
\* gets no signal (the call returns "process already finished"); a zombie
\* takes the signal without effect; a running process dies, and the write it
\* was blocked in is abandoned.
SignalEffect(d) ==
    /\ killSent' = [killSent EXCEPT ![d] = @ \/ procState[d] # "reaped"]
    /\ procState' = [procState EXCEPT ![d] = IF @ = "running" THEN "exited" ELSE @]
    /\ exitStatus' = [exitStatus EXCEPT ![d] =
                         IF procState[d] = "running" THEN "killed" ELSE @]
    /\ pending' = [pending EXCEPT ![d] = IF procState[d] = "running" THEN 0 ELSE @]

\* kill.Process.Wait() can return: at once with an error for a process already
\* waited on, else when the process has exited.
ProcessWaitReady(d) == procState[d] \in {"exited", "reaped"}

ProcessWaitEffect(d) == procState' = [procState EXCEPT ![d] = "reaped"]

\* ---------------------------------------------------------- ExecPipeline
\* Variant: the closure tests the value err had when it was deferred, which is
\* nil, Start having just succeeded.
KillCondAtRegistration(d) == "nil" # "nil" /\ process[d]

\* Variant: the closure kills only a process that is still running.
KillCondAlive(d) == err # "nil" /\ procState[d] = "running"

\* Variant: the closure kills only after a failed Wait.
KillCondWaitOnly(d) == err = "wait" /\ process[d]

\* Variant: the closure leaves alone a process that was already waited on.
KillCondNotWaited(d) == err # "nil" /\ process[d] /\ procState[d] # "reaped"

\* The condition of the deferred closure, evaluated when the closure runs.
KillCond(d) == err # "nil" /\ process[d]

\* Leaving ExecPipeline with value e: the deferred closures run first.
Return(e) ==
    /\ ret' = e
    /\ pc' = "PL_defer"

\* Variant: the length test is off by one.
EmptyCheckOffByOne == n < 0

\* len(cmds) < 1
EmptyCheck == n < 1

\* if len(cmds) < 1 { return fmt.Errorf(...) }
PLCheck ==
    /\ pc = "PL_check"
    /\ IF EmptyCheck
       THEN Return(NoCommands)
       ELSE pc' = "PL_attach" /\ ret' = ret
    /\ UNCHANGED << callVars, idx, err, retBytes, defers, calls, cmdVars,
                    process, parentRead, procVars, pipeBuf, stdoutBuf, stderrBuf >>

\* cmds[0].Stdin = stdin when stdin != nil; the O-variant always passes
\* non-nil stdout and stderr, so no discard sink is substituted.
PLAttach ==
    /\ pc = "PL_attach"
    /\ cmdStdin' = IF hasStdin THEN [cmdStdin EXCEPT ![0] = "stdin"] ELSE cmdStdin
    /\ idx' = 0
    /\ pc' = IF Last = 0 THEN "PL_last" ELSE "PL_pipe"
    /\ UNCHANGED << callVars, err, ret, retBytes, defers, calls, cmdStdout,
                    cmdStderr, process, parentRead, procVars, pipeBuf, stdoutBuf, stderrBuf >>

\* cmds[i+1].Stdin, err = cmd.StdoutPipe() succeeded; cmd.Stderr = stderr
PLPipeOK ==
    /\ pc = "PL_pipe"
    /\ idx < Last
    /\ cmdStdout' = [cmdStdout EXCEPT ![idx] = PipeName(idx)]
    /\ cmdStdin' = [cmdStdin EXCEPT ![idx + 1] = PipeName(idx)]
    /\ cmdStderr' = [cmdStderr EXCEPT ![idx] = "stderr"]
    /\ parentRead' = [parentRead EXCEPT ![idx] = TRUE]
    /\ calls' = Append(calls, <<"StdoutPipe", idx>>)
    /\ idx' = idx + 1
    /\ pc' = IF idx + 1 = Last THEN "PL_last" ELSE "PL_pipe"
    /\ UNCHANGED << callVars, err, ret, retBytes, defers, process, procVars,
                    pipeBuf, stdoutBuf, stderrBuf >>

\* Variant: the error names the command on the reading side of the pipe.
PipeErrReader(i) == Errorf(Path(i + 1), "pipe")

\* return fmt.Errorf("%s %s", cmd.Path, err) in the pipe loop
PipeErr(i) == Errorf(Path(i), "pipe")

\* cmd.StdoutPipe() failed (no descriptor left, or Stdout already set)
PLPipeFail ==
    /\ pc = "PL_pipe"
    /\ idx < Last
    /\ err' = "pipe"
    /\ cmdStdin' = [cmdStdin EXCEPT ![idx + 1] = "unset"]
    /\ calls' = Append(calls, <<"StdoutPipeFail", idx>>)
    /\ Return(PipeErr(idx))
    /\ UNCHANGED << callVars, idx, retBytes, defers, cmdStdout, cmdStderr,
                    process, parentRead, procVars, pipeBuf, stdoutBuf, stderrBuf >>

\* Variant: the last command gets the output destination only.
PLLastNoStderr ==
    /\ pc = "PL_last"
    /\ cmdStdout' = [cmdStdout EXCEPT ![Last] = "stdout"]
    /\ idx' = 0
    /\ pc' = "PL_start"
    /\ UNCHANGED << callVars, err, ret, retBytes, defers, calls, cmdStdin,
                    cmdStderr, process, parentRead, procVars, pipeBuf,
                    stdoutBuf, stderrBuf >>

\* cmds[last].Stdout, cmds[last].Stderr = stdout, stderr
PLLast ==
    /\ pc = "PL_last"
    /\ cmdStdout' = [cmdStdout EXCEPT ![Last] = "stdout"]
    /\ cmdStderr' = [cmdStderr EXCEPT ![Last] = "stderr"]
    /\ idx' = 0
    /\ pc' = "PL_start"
    /\ UNCHANGED << callVars, err, ret, retBytes, defers, calls, cmdStdin,
                    process, parentRead, procVars, pipeBuf, stdoutBuf, stderrBuf >>

\* Variant: the start loop is left after its first command.
StartLoopDoneAfterFirst(i) == TRUE

\* for _, cmd := range cmds: command i was the last one of the start loop.
StartLoopDone(i) == i + 1 = n

\* Variant: the deferred closures are run in the order they were registered.
DeferFIFO(d) == Append(defers, d)

\* defer func() {...}(): deferred calls run last-in first-out, so the closure
\* of command d goes in front of those registered before it.
Defer(d) == << d >> \o defers

\* cmd.Start() succeeded: the cleanup closure for this stage is deferred.
PLStartOK ==
    /\ pc = "PL_start"
    /\ idx < n
    /\ err' = "nil"
    /\ CmdStartEffect(idx)
    /\ defers' = Defer(idx)
    /\ calls' = Append(calls, <<"Start", idx>>)
    /\ idx' = IF StartLoopDone(idx) THEN 0 ELSE idx + 1
    /\ pc' = IF StartLoopDone(idx) THEN "PL_wait" ELSE "PL_start"
    /\ UNCHANGED << callVars, ret, retBytes, cmdVars, parentRead, exitStatus,
                    killSent, pending, wrote, recvd, pipeBuf, stdoutBuf, stderrBuf >>

\* Variant: the closure is deferred before the error of Start is tested.
PLStartFailDeferred ==
    /\ pc = "PL_start"
    /\ idx < n
    /\ err' = "start"
    /\ parentRead' = [parentRead EXCEPT ![idx] = FALSE]
    /\ calls' = Append(calls, <<"StartFail", idx>>)
    /\ defers' = Defer(idx)
    /\ Return(Errorf(Path(idx), "start"))
    /\ UNCHANGED << callVars, idx, retBytes, cmdVars, process,
                    procVars, pipeBuf, stdoutBuf, stderrBuf >>

\* cmd.Start() failed: the descriptors of this command are closed, nothing is
\* deferred for it, and the call returns.
PLStartFail ==
    /\ pc = "PL_start"
    /\ idx < n
    /\ err' = "start"
    /\ parentRead' = [parentRead EXCEPT ![idx] = FALSE]
    /\ calls' = Append(calls, <<"StartFail", idx>>)
    /\ Return(Errorf(Path(idx), "start"))
    /\ UNCHANGED << callVars, idx, retBytes, defers, cmdVars, process,
                    procVars, pipeBuf, stdoutBuf, stderrBuf >>

\* Variant: the failure is recorded and the wait loop goes on to the next
\* command, returning after the last one.
AfterWaitFailContinue ==
    /\ ret' = Errorf(Path(idx), "wait")
    /\ idx' = IF idx + 1 = n THEN idx ELSE idx + 1
    /\ pc' = IF idx + 1 = n THEN "PL_defer" ELSE "PL_wait"

\* What follows a cmd.Wait() that returned an error for stage idx.
AfterWaitFail ==
    /\ Return(Errorf(Path(idx), "wait"))
    /\ idx' = idx

\* cmd.Wait() returned nil: next command, or "return nil" after the last one.
PLWaitOK ==
    /\ pc = "PL_wait"
    /\ idx < n
    /\ WaitReady(idx)
    /\ exitStatus[idx] = "ok"
    /\ CmdWaitEffect(idx)
    /\ err' = "nil"
    /\ calls' = Append(calls, <<"Wait", idx>>)
    /\ IF idx + 1 = n
       THEN Return(Nil) /\ idx' = idx
       ELSE pc' = "PL_wait" /\ idx' = idx + 1 /\ ret' = ret
    /\ UNCHANGED << callVars, retBytes, defers, cmdVars, process, exitStatus,
                    killSent, pending, wrote, recvd, pipeBuf, stdoutBuf, stderrBuf >>

\* cmd.Wait() returned an error: the process exited with a failure.
PLWaitFail ==
    /\ pc = "PL_wait"
    /\ idx < n
    /\ WaitReady(idx)
    /\ exitStatus[idx] # "ok"
    /\ CmdWaitEffect(idx)
    /\ err' = "wait"
    /\ calls' = Append(calls, <<"WaitFail", idx>>)
    /\ AfterWaitFail
    /\ UNCHANGED << callVars, retBytes, defers, cmdVars, process, exitStatus,
                    killSent, pending, wrote, recvd, pipeBuf, stdoutBuf, stderrBuf >>

\* A deferred closure whose condition is false does nothing.
PLDeferSkip ==
    /\ pc = "PL_defer"
    /\ defers # << >>
    /\ ~KillCond(Head(defers))
    /\ defers' = Tail(defers)
    /\ UNCHANGED << callVars, pc, idx, err, ret, retBytes, calls, cmdVars,
                    process, parentRead, procVars, pipeBuf, stdoutBuf, stderrBuf >>

\* kill.Process.Signal(syscall.SIGKILL)
PLDeferSignal ==
    /\ pc = "PL_defer"
    /\ defers # << >>
    /\ KillCond(Head(defers))
    /\ SignalEffect(Head(defers))
    /\ calls' = Append(calls, <<"Signal", Head(defers)>>)
    /\ pc' = "PL_defer_wait"
    /\ UNCHANGED << callVars, idx, err, ret, retBytes, defers, cmdVars,
                    process, parentRead, wrote, recvd, pipeBuf, stdoutBuf, stderrBuf >>

\* kill.Process.Wait(); the closure is finished.
PLDeferReap ==
    /\ pc = "PL_defer_wait"
    /\ ProcessWaitReady(Head(defers))
    /\ ProcessWaitEffect(Head(defers))
    /\ calls' = Append(calls, <<"ProcessWait", Head(defers)>>)
    /\ defers' = Tail(defers)
    /\ pc' = "PL_defer"
    /\ UNCHANGED << callVars, idx, err, ret, retBytes, cmdVars, process,
                    parentRead, exitStatus, killSent, pending, wrote, recvd,
                    pipeBuf, stdoutBuf, stderrBuf >>

\* All deferred closures have run: ExecPipeline returns to ExecPipelineE.
PLReturn ==
    /\ pc = "PL_defer"
    /\ defers = << >>
    /\ pc' = "PLE_ret"
    /\ UNCHANGED << callVars, idx, err, ret, retBytes, defers, calls, cmdVars,
                    process, parentRead, procVars, pipeBuf, stdoutBuf, stderrBuf >>

\* --------------------------------------------- ExecPipelineE, ExecPipelineO
\* What the error buffer can hold when the wrapper reads it: nothing, or the
\* diagnostic of one of the commands that were started.
StderrTexts == { << >> } \cup { << Diag(i) >> : i \in { j \in Stages : process[j] } }

\* if err := ExecPipeline(...); err != nil { return fmt.Errorf("%s - %s", ...) }
\* return nil
PLERet ==
    /\ pc = "PLE_ret"
    /\ stderrBuf' \in StderrTexts
    /\ ret' = IF ret # Nil THEN ErrorfE(ret, stderrBuf') ELSE Nil
    /\ pc' = "PLO_ret"
    /\ UNCHANGED << callVars, idx, err, retBytes, defers, calls, cmdVars,
                    process, parentRead, procVars, pipeBuf, stdoutBuf >>

\* Variant: like ExecO, nil bytes beside an error.
PipelineOBytesNilOnError(e) == IF e # Nil THEN << >> ELSE stdoutBuf

\* The bytes ExecPipelineO returns beside error e.
PipelineOBytes(e) == stdoutBuf

\* err := ExecPipelineE(cmds, stdin, &stdout); return stdout.Bytes(), err
PLORet ==
    /\ pc = "PLO_ret"
    /\ retBytes' = PipelineOBytes(ret)
    /\ pc' = "done"
    /\ UNCHANGED << callVars, idx, err, ret, defers, calls, cmdVars, process,
                    parentRead, procVars, pipeBuf, stdoutBuf, stderrBuf >>

\* ------------------------------------------------------ Exec, ExecE, ExecO
\* cmd.Stdin = stdin when stdin != nil; cmd.Stdout = stdout; cmd.Stderr = stderr
EXAttach ==
    /\ pc = "EX_attach"
    /\ cmdStdin' = IF hasStdin THEN [cmdStdin EXCEPT ![0] = "stdin"] ELSE cmdStdin
    /\ cmdStdout' = [cmdStdout EXCEPT ![0] = "stdout"]
    /\ cmdStderr' = [cmdStderr EXCEPT ![0] = "stderr"]
    /\ pc' = "EX_start"
    /\ UNCHANGED << callVars, idx, err, ret, retBytes, defers, calls, process,
                    parentRead, procVars, pipeBuf, stdoutBuf, stderrBuf >>

\* err := cmd.Start() succeeded
EXStartOK ==
    /\ pc = "EX_start"
    /\ err' = "nil"
    /\ CmdStartEffect(0)
    /\ calls' = Append(calls, <<"Start", 0>>)
    /\ pc' = "EX_wait"
    /\ UNCHANGED << callVars, idx, ret, retBytes, defers, cmdVars, parentRead,
                    exitStatus, killSent, pending, wrote, recvd, pipeBuf,
                    stdoutBuf, stderrBuf >>

\* Variant: a failed Start falls through to the Wait.
EXStartFailThenWait ==
    /\ pc = "EX_start"
    /\ err' = "start"
    /\ calls' = Append(calls, <<"StartFail", 0>>)
    /\ ret' = Errorf(Path(0), "start")
    /\ pc' = "EX_wait"
    /\ UNCHANGED << callVars, idx, retBytes, defers, cmdVars, process,
                    parentRead, procVars, pipeBuf, stdoutBuf, stderrBuf >>

\* err := cmd.Start() failed: return at once
EXStartFail ==
    /\ pc = "EX_start"
    /\ err' = "start"
    /\ calls' = Append(calls, <<"StartFail", 0>>)
    /\ ret' = Errorf(Path(0), "start")
    /\ pc' = "EE_ret"
    /\ UNCHANGED << callVars, idx, retBytes, defers, cmdVars, process,
                    parentRead, procVars, pipeBuf, stdoutBuf, stderrBuf >>

\* err = cmd.Wait() returned nil
EXWaitOK ==
    /\ pc = "EX_wait"
    /\ WaitReady(0)
    /\ exitStatus[0] = "ok"
    /\ CmdWaitEffect(0)
    /\ err' = "nil"
    /\ calls' = Append(calls, <<"Wait", 0>>)
    /\ ret' = Nil
    /\ pc' = "EE_ret"
    /\ UNCHANGED << callVars, idx, retBytes, defers, cmdVars, process,
                    exitStatus, killSent, pending, wrote, recvd, pipeBuf,
                    stdoutBuf, stderrBuf >>

\* err = cmd.Wait() returned an error
EXWaitFail ==
    /\ pc = "EX_wait"
    /\ WaitReady(0)
    /\ exitStatus[0] # "ok"
    /\ CmdWaitEffect(0)
    /\ err' = "wait"
    /\ calls' = Append(calls, <<"WaitFail", 0>>)
    /\ ret' = Errorf(Path(0), "wait")
    /\ pc' = "EE_ret"
    /\ UNCHANGED << callVars, idx, retBytes, defers, cmdVars, process,
                    exitStatus, killSent, pending, wrote, recvd, pipeBuf,
                    stdoutBuf, stderrBuf >>

\* ExecE: if err := Exec(...); err != nil { return fmt.Errorf("%s - %s", ...) }
EERet ==
    /\ pc = "EE_ret"
    /\ stderrBuf' \in StderrTexts
    /\ ret' = IF ret # Nil THEN ErrorfE(ret, stderrBuf') ELSE Nil
    /\ pc' = "EO_ret"
    /\ UNCHANGED << callVars, idx, err, retBytes, defers, calls, cmdVars,
                    process, parentRead, procVars, pipeBuf, stdoutBuf >>

\* The bytes ExecO returns beside error e: nil on an error.
ExecOBytes(e) == IF e # Nil THEN << >> ELSE stdoutBuf

\* ExecO: if err := ExecE(...); err != nil { return nil, err }
\*        return stdout.Bytes(), nil
EORet ==
    /\ pc = "EO_ret"
    /\ retBytes' = ExecOBytes(ret)
    /\ pc' = "done"
    /\ UNCHANGED << callVars, idx, err, ret, defers, calls, cmdVars, process,
                    parentRead, procVars, pipeBuf, stdoutBuf, stderrBuf >>

\* ------------------------------------------------------ the stage processes
\* The j-th byte a stage writes is j: bytes are told apart by their position,
\* so a loss, a duplication or a reordering shows in the sequences.
NextByte(i) == Len(wrote[i]) + 1

\* Stage i calls write(2) on its standard output.  With room in the pipe the
\* byte is taken at once; on a full pipe the process blocks in the call.  The
\* pipe of a running stage always has a reader, since the caller closes its
\* read end only in cmd.Wait of that stage: the write never ends in EPIPE.
ProcWrite(i) ==
    /\ procState[i] = "running"
    /\ pending[i] = 0
    /\ Len(wrote[i]) < MaxOut
    /\ ReadersOpen(i)
    /\ IF Len(pipeBuf[i]) < PipeCap
       THEN /\ pipeBuf' = [pipeBuf EXCEPT ![i] = Append(@, NextByte(i))]
            /\ wrote' = [wrote EXCEPT ![i] = Append(@, NextByte(i))]
            /\ pending' = pending
       ELSE /\ pending' = [pending EXCEPT ![i] = NextByte(i)]
            /\ UNCHANGED << pipeBuf, wrote >>
    /\ UNCHANGED << callVars, orchVars, cmdVars, process, parentRead,
                    procState, exitStatus, killSent, recvd, stdoutBuf, stderrBuf >>

\* Room appeared in the pipe: the blocked write(2) of stage i completes.
ProcWriteResume(i) ==
    /\ procState[i] = "running"
    /\ pending[i] # 0
    /\ Len(pipeBuf[i]) < PipeCap
    /\ pipeBuf' = [pipeBuf EXCEPT ![i] = Append(@, pending[i])]
    /\ wrote' = [wrote EXCEPT ![i] = Append(@, pending[i])]
    /\ pending' = [pending EXCEPT ![i] = 0]
    /\ UNCHANGED << callVars, orchVars, cmdVars, process, parentRead,
                    procState, exitStatus, killSent, recvd, stdoutBuf, stderrBuf >>

\* Stage i reads a byte from its standard input, the pipe from stage i-1.
ProcRead(i) ==
    /\ i >= 1
    /\ procState[i] = "running"
    /\ pending[i] = 0
    /\ cmdStdin[i] = PipeName(i - 1)
    /\ pipeBuf[i - 1] # << >>
    /\ recvd' = [recvd EXCEPT ![i] = Append(@, Head(pipeBuf[i - 1]))]
    /\ pipeBuf' = [pipeBuf EXCEPT ![i - 1] = Tail(@)]
    /\ UNCHANGED << callVars, orchVars, cmdVars, process, parentRead,
                    procState, exitStatus, killSent, pending, wrote, stdoutBuf,
                    stderrBuf >>

\* Stage i exits on its own, with status zero (ok) or not.  A process blocked
\* in write(2) cannot exit.
ProcExit(i, ok) ==
    /\ procState[i] = "running"
    /\ pending[i] = 0
    /\ procState' = [procState EXCEPT ![i] = "exited"]
    /\ exitStatus' = [exitStatus EXCEPT ![i] = IF ok THEN "ok" ELSE "fail"]
    /\ UNCHANGED << callVars, orchVars, cmdVars, process, parentRead,
                    killSent, pending, wrote, recvd, pipeBuf, stdoutBuf, stderrBuf >>

\* The goroutine cmd.Start created for a bytes.Buffer output copies a byte
\* from the pipe into the buffer.
Copier(i) ==
    /\ cmdStdout[i] = "stdout"
    /\ pipeBuf[i] # << >>
    /\ stdoutBuf' = stdoutBuf \o << Head(pipeBuf[i]) >>
    /\ pipeBuf' = [pipeBuf EXCEPT ![i] = Tail(@)]
    /\ UNCHANGED << callVars, orchVars, cmdVars, process, parentRead,
                    procVars, stderrBuf >>

\* ------------------------------------------------------------------- Next
Orchestrator ==
    \/ PLCheck \/ PLAttach \/ PLPipeOK \/ PLPipeFail \/ PLLast
    \/ PLStartOK \/ PLStartFail \/ PLWaitOK \/ PLWaitFail
    \/ PLDeferSkip \/ PLDeferSignal \/ PLDeferReap \/ PLReturn
    \/ PLERet \/ PLORet
    \/ EXAttach \/ EXStartOK \/ EXStartFail \/ EXWaitOK \/ EXWaitFail
    \/ EERet \/ EORet

StageStep(i) ==
    \/ ProcWrite(i) \/ ProcWriteResume(i) \/ ProcRead(i)
    \/ \E ok \in BOOLEAN : ProcExit(i, ok)
    \/ Copier(i)

Next == Orchestrator \/ \E i \in Stages : StageStep(i)

Spec == Init /\ [][Next]_vars

\* The orchestrating goroutine keeps running; a stage that is not blocked in
\* write(2) eventually exits, a blocked write completes once the pipe has
\* room, and the copying goroutine keeps draining its pipe.
Fairness ==
    /\ WF_vars(Orchestrator)
    /\ \A i \in Stages :
          /\ WF_vars(\E ok \in BOOLEAN : ProcExit(i, ok))
          /\ WF_vars(ProcWriteResume(i))
          /\ WF_vars(Copier(i))

FairSpec == Spec /\ Fairness

\* ------------------------------------------------- vocabulary of the claims
Called(op, i) == \E j \in 1 .. Len(calls) : calls[j] = << op, i >>

\* Position of the call in the log, 0 if it was not made.
At(op, i) == IF Called(op, i)
             THEN CHOOSE j \in 1 .. Len(calls) : calls[j] = << op, i >>
             ELSE 0

WaitCalled(i) == Called("Wait", i) \/ Called("WaitFail", i)

Pipeline == api = "ExecPipelineO"

\* ExecPipeline has returned to its caller (its deferred closures have run).
PLReturned == Pipeline /\ pc \in {"PLE_ret", "PLO_ret", "done"}

\* The stage an error text names: its first part.
Tag(e) == e[1]

InPipeline(i) == i \in 0 .. (n - 1)

\* ------------------------------------------------------------------ C1
\* C1: when ExecPipeline has returned, on whatever path, every stage whose
\* Start succeeded has been reaped, by its own cmd.Wait or by the Signal and
\* Process.Wait of its deferred closure.
C1_StartedAreReaped ==
    PLReturned =>
        \A i \in Stages :
            process[i] =>
                /\ procState[i] = "reaped"
                /\ \/ WaitCalled(i)
                   \/ (Called("Signal", i) /\ Called("ProcessWait", i))

\* A failing call has returned and reaped a stage it never called cmd.Wait on.
C1_Witness ==
    /\ PLReturned
    /\ \E i \in Stages :
          process[i] /\ ~WaitCalled(i) /\ procState[i] = "reaped" /\ killSent[i]

\* ------------------------------------------------------------------ C2
\* C2: once Start of stage k has failed, no later stage is ever started; when
\* the call has returned, its error names stage k and every earlier stage has
\* been sent SIGKILL and reaped.
C2_StartFailure ==
    \A k \in Stages :
        (Pipeline /\ Called("StartFail", k)) =>
            /\ \A j \in Stages :
                  j > k => /\ ~Called("Start", j)
                           /\ ~Called("StartFail", j)
                           /\ procState[j] = "none"
            /\ PLReturned =>
                  /\ Tag(ret) = Path(k)
                  /\ \A j \in Stages :
                        j < k => /\ Called("Start", j)
                                 /\ killSent[j]
                                 /\ procState[j] = "reaped"

\* Start of stage 1 failed after stage 0 was started, and the call returned.
C2_Witness ==
    /\ PLReturned
    /\ Called("StartFail", 1)
    /\ Called("Start", 0)
    /\ killSent[0]

\* ------------------------------------------------------------------ C3
\* The stages a cmd.Wait failed on, and the first of them.
WaitFailures == { k \in Stages : Called("WaitFail", k) }

\* C3 as stated: after the first Wait failure, at stage k, cmd.Wait is still
\* called on each later stage, every started stage ends reaped and the error
\* returned is the one of stage k.
C3_AsStated ==
    \A k \in Stages :
        (PLReturned /\ Called("WaitFail", k)) =>
            /\ \A j \in Stages : (InPipeline(j) /\ j > k) => WaitCalled(j)
            /\ \A j \in Stages : process[j] => procState[j] = "reaped"
            /\ Tag(ret) = Path(k)

\* C3 amended: a Wait failure at stage k ends the wait loop: no cmd.Wait is
\* ever called on a later stage; when the call has returned, every later
\* stage has been killed and reaped by its deferred closure, every started
\* stage is reaped, that failure is the only one and is the one returned.
C3_WaitFailureEndsWaiting ==
    \A k \in Stages :
        (Pipeline /\ Called("WaitFail", k)) =>
            /\ \A j \in Stages : j > k => ~WaitCalled(j)
            /\ WaitFailures = {k}
            /\ PLReturned =>
                  /\ \A j \in Stages :
                        (InPipeline(j) /\ j > k) =>
                            /\ killSent[j]
                            /\ At("Signal", j) > At("WaitFail", k)
                            /\ At("ProcessWait", j) > At("Signal", j)
                  /\ \A j \in Stages : process[j] => procState[j] = "reaped"
                  /\ Tag(ret) = Path(k)

\* Wait failed on stage 0 of a longer pipeline, and the call returned.
C3_Witness ==
    /\ PLReturned
    /\ n > 1
    /\ Called("WaitFail", 0)
    /\ \A j \in Stages : InPipeline(j) => procState[j] = "reaped"

\* ------------------------------------------------------------------ C4
\* C4: with no command, ExecPipeline goes from its length test straight to
\* its return with the configuration error, and nothing is touched: no pipe,
\* no stream attached, no call on any process descriptor.
C4_EmptyPipeline ==
    (Pipeline /\ n = 0) =>
        /\ pc \in {"PL_check", "PL_defer", "PLE_ret", "PLO_ret", "done"}
        /\ calls = << >>
        /\ defers = << >>
        /\ \A i \in Stages :
              /\ cmdStdin[i] = "unset"
              /\ cmdStdout[i] = "unset"
              /\ cmdStderr[i] = "unset"
              /\ ~parentRead[i]
              /\ ~process[i]
              /\ procState[i] = "none"
        /\ pc # "PL_check" => Tag(ret) = Tag(NoCommands)

\* The call with no command, and an input source, has returned its error.
C4_Witness ==
    /\ Pipeline
    /\ n = 0
    /\ hasStdin
    /\ pc = "done"
    /\ ret # Nil

\* ------------------------------------------------------------------ C5
StartFailures == { k \in Stages : Called("StartFail", k) }

\* The stages that exited with a failure of their own.
ExitFailures == { k \in Stages : exitStatus[k] = "fail" }

Min(S) == CHOOSE x \in S : \A y \in S : x <= y

AllStartedAndWaitedOK ==
    \A i \in Stages : InPipeline(i) => Called("Start", i) /\ Called("Wait", i)

\* C5 as stated, for a call with at least one command: every error
\* ExecPipeline returns names the lowest stage whose Start failed or else the
\* lowest stage whose Wait failed, and the call succeeds exactly when every
\* stage started and every Wait reported success.
C5_AsStated ==
    (PLReturned /\ n >= 1) =>
        /\ ret # Nil =>
              IF StartFailures # {}
              THEN Tag(ret) = Path(Min(StartFailures))
              ELSE /\ WaitFailures # {}
                   /\ Tag(ret) = Path(Min(WaitFailures))
        /\ ret = Nil <=> AllStartedAndWaitedOK

\* The call has got as far as starting stages: it has commands and pipes.
ReachedStart == Called("Start", 0) \/ Called("StartFail", 0)

\* C5 amended: for a call that has commands and has created all its pipes,
\* the error names the stage whose Start failed if one did, whatever became
\* of the stages already started, and otherwise the lowest stage that exited
\* with a failure of its own, whatever the order of the exits; the call
\* succeeds exactly when every stage started and every Wait reported
\* success.  The other errors are the configuration error of the empty
\* pipeline, which names no stage, and the pipe error, which names the
\* writing stage of the pipe.
C5_ErrorNamesFirstFailure ==
    PLReturned =>
        /\ ReachedStart =>
              /\ ret # Nil =>
                    IF StartFailures # {}
                    THEN /\ Tag(ret) = Path(Min(StartFailures))
                         /\ WaitFailures = {}
                    ELSE /\ WaitFailures # {}
                         /\ Tag(ret) = Path(Min(WaitFailures))
                         /\ Tag(ret) = Path(Min(ExitFailures))
              /\ ret = Nil <=> AllStartedAndWaitedOK
        /\ ~ReachedStart =>
              /\ ret # Nil
              /\ IF n = 0
                 THEN Tag(ret) = Tag(NoCommands)
                 ELSE \E i \in Stages :
                          Called("StdoutPipeFail", i) /\ Tag(ret) = Path(i)

\* Stages 0 and 1 both exited with a failure of their own, stage 1 before it
\* could be killed for stage 0's, and the error returned names stage 0.
C5_Witness ==
    /\ PLReturned
    /\ StartFailures = {}
    /\ ExitFailures = {0, 1}
    /\ killSent[1]
    /\ Tag(ret) = Path(0)

C7_FailureIsReturned ==
    (Pipeline /\ \E i \in Stages : exitStatus[i] = "fail")
        ~> (pc = "done" /\ ret # Nil)

\* ------------------------------------------------------------------ C8
\* C8: when ExecPipeline has returned a failure, every started stage has had
\* Signal(SIGKILL) and then Process.Wait called on it by its deferred closure
\* and is reaped, also a stage whose own cmd.Wait had returned success.
C8_FailureKillsAllStarted ==
    (PLReturned /\ ret # Nil) =>
        \A i \in Stages :
            process[i] =>
                /\ Called("Signal", i)
                /\ At("ProcessWait", i) = At("Signal", i) + 1
                /\ procState[i] = "reaped"

\* A failing call has returned after cmd.Wait of stage 0 returned success and
\* stage 0 was signalled nonetheless.
C8_Witness ==
    /\ PLReturned
    /\ ret # Nil
    /\ Called("Wait", 0)
    /\ Called("WaitFail", 1)
    /\ At("Signal", 0) > At("WaitFail", 1)

\* ------------------------------------------------------------------ C9
AllExitedOK == \A i \in Stages : InPipeline(i) => exitStatus[i] = "ok"

\* C9: bytes are neither lost, duplicated nor reordered between two stages
\* (what the writer wrote is what the reader read followed by what is still
\* in the pipe), nor between the last stage and the output buffer; and when
\* ExecPipelineO has returned from a call in which every stage started and
\* exited with status 0, the error is nil and the bytes returned are exactly
\* those the last stage wrote.
C9_OutputIsExact ==
    (Pipeline /\ n >= 1) =>
        /\ \A i \in Stages :
              (InPipeline(i) /\ i < Last /\ cmdStdout[i] = PipeName(i)) =>
                  wrote[i] = recvd[i + 1] \o pipeBuf[i]
        /\ cmdStdout[Last] = "stdout" => wrote[Last] = stdoutBuf \o pipeBuf[Last]
        /\ (pc = "done" /\ AllExitedOK) =>
              /\ ret = Nil
              /\ retBytes = wrote[Last]

\* A two-stage call returned success; the second stage read all the first
\* wrote, more than a pipe holds, and the output returned is as long.
C9_Witness ==
    /\ Pipeline
    /\ n = 2
    /\ pc = "done"
    /\ ret = Nil
    /\ Len(wrote[0]) > PipeCap
    /\ recvd[1] = wrote[0]
    /\ Len(retBytes) > PipeCap
    /\ retBytes = wrote[1]

\* ----------------------------------------------------------------- C10
\* C10 as stated: at its return, either O-variant hands back the bytes then
\* in its output buffer, whatever the error.
C10_AsStated ==
    [][(pc # "done" /\ pc' = "done") => retBytes' = stdoutBuf]_vars

\* C10 amended: at its return ExecPipelineO hands back the bytes then in its
\* output buffer, whether its error is nil or not; ExecO hands them back only
\* beside a nil error, and hands back nil bytes beside an error.
C10_BytesBesideError ==
    [][(pc # "done" /\ pc' = "done") =>
          retBytes' = IF api = "ExecO" /\ ret # Nil THEN << >> ELSE stdoutBuf]_vars

\* A failing pipeline call has returned captured output beside its error.
C10_Witness ==
    /\ Pipeline
    /\ pc = "done"
    /\ ret # Nil
    /\ retBytes # << >>
    /\ retBytes = stdoutBuf

\* ----------------------------------------------------------------- C11
\* The E-variant (ExecE or ExecPipelineE) has returned to the O-variant.
AfterE == pc \in {"PLO_ret", "EO_ret", "done"}

\* The error the executor under the E-variant returned: nil, the
\* configuration error, or the error of the command at which it stopped.
UnderlyingErr ==
    IF Pipeline /\ n = 0 THEN NoCommands
    ELSE IF err = "nil" THEN Nil
    ELSE Errorf(Path(idx), err)

\* C11: the E-variant returns nil when the executor under it succeeded,
\* whatever the error buffer holds; when it failed the E-variant returns that
\* error's text, the separator, and then the text of the error buffer, which
\* is the whole remainder: the captured text when there is some, nothing when
\* the buffer is empty.
C11_ErrorCarriesCapturedText ==
    AfterE =>
        /\ UnderlyingErr = Nil => ret = Nil
        /\ UnderlyingErr # Nil =>
              /\ Len(ret) = Len(UnderlyingErr) + 1 + Len(stderrBuf)
              /\ SubSeq(ret, 1, Len(UnderlyingErr)) = UnderlyingErr
              /\ ret[Len(UnderlyingErr) + 1] = " - "
              /\ SubSeq(ret, Len(UnderlyingErr) + 2, Len(ret)) = stderrBuf

\* A failing call whose error ends with the diagnostic a command wrote.
C11_Witness ==
    /\ AfterE
    /\ UnderlyingErr # Nil
    /\ stderrBuf # << >>
    /\ ret[Len(ret)] = stderrBuf[1]

\* ----------------------------------------------------------------- C12
\* The call is a single-command one and Exec has returned.
Single == api = "ExecO"
ExecReturned == Single /\ pc \in {"EE_ret", "EO_ret", "done"}

\* C12: Exec calls Start once.  When Start fails Exec has returned with an
\* error tagged with the command's path and that Start is the only call it
\* made: no Wait, no kill.  When Start succeeds Exec calls Wait once, and it
\* returns nil exactly when the command exited with status zero, otherwise an
\* error tagged with the command's path.
C12_ExecStartThenWait ==
    Single =>
        /\ Len(calls) <= 2
        /\ \A j \in 1 .. Len(calls) :
              /\ calls[j][2] = 0
              /\ calls[j][1] \in {"Start", "StartFail"} <=> j = 1
              /\ j = 2 => calls[1][1] = "Start" /\ calls[j][1] \in {"Wait", "WaitFail"}
        /\ ~killSent[0]
        /\ Called("StartFail", 0) =>
              /\ ExecReturned
              /\ calls = << <<"StartFail", 0>> >>
              /\ ret # Nil /\ Tag(ret) = Path(0)
              /\ ~process[0]
        /\ ExecReturned /\ Called("Start", 0) =>
              /\ Len(calls) = 2
              /\ ret = Nil <=> exitStatus[0] = "ok"
              /\ ret = Nil <=> calls[2] = <<"Wait", 0>>
              /\ ret # Nil => Tag(ret) = Path(0)

\* Exec returned an error after a successful Start and one Wait.
C12_Witness ==
    /\ ExecReturned
    /\ calls = << <<"Start", 0>>, <<"WaitFail", 0>> >>
    /\ Tag(ret) = Path(0)

\* ----------------------------------------------------------------- C13
\* The Start and Wait calls of the log, in the order they were made.
IsStartOrWait(c) == c[1] \in {"Start", "StartFail", "Wait", "WaitFail"}
StartsAndWaits == SelectSeq(calls, IsStartOrWait)

\* C13: ExecPipeline attempts the Starts in the order of the commands, the
\* j-th attempt being the one of command j-1; it calls the Waits in the same
\* order; and when it calls a Wait every one of the n Starts has succeeded.
C13_StartsThenWaitsInOrder ==
    Pipeline =>
        LET s == StartsAndWaits
        IN  \A j \in 1 .. Len(s) :
                /\ s[j][1] \in {"Start", "StartFail"} =>
                      j <= n /\ s[j][2] = j - 1
                /\ s[j][1] \in {"Wait", "WaitFail"} =>
                      /\ j > n
                      /\ s[j][2] = j - n - 1
                      /\ \A i \in 0 .. (n - 1) : s[i + 1] = <<"Start", i>>

\* Two commands started in order and then waited on in order.
C13_Witness ==
    /\ Pipeline
    /\ n = 2
    /\ Len(StartsAndWaits) >= 4
    /\ SubSeq(StartsAndWaits, 1, 4) =
          << <<"Start", 0>>, <<"Start", 1>>, <<"Wait", 0>>, <<"Wait", 1>> >>

\* ----------------------------------------------------------------- C14
\* C14: from the moment the first Start is attempted the commands are wired
\* as a chain.  The caller's input, when there is one, is the input of command
\* 0 and of no other command; the output of each command before the last is
\* the writing side of a pipe of its own whose reading side is the input of
\* the next command; the caller's output destination is the output of the
\* last command and of no other; and the one error destination is the error
\* stream of every command.
C14_WiredAsChain ==
    (Pipeline /\ ReachedStart) =>
        /\ cmdStdin[0] = (IF hasStdin THEN "stdin" ELSE "unset")
        /\ \A i \in 0 .. Last :
              /\ i > 0 => cmdStdin[i] # "stdin"
              /\ i < Last =>
                    /\ cmdStdout[i] = PipeName(i)
                    /\ cmdStdin[i + 1] = cmdStdout[i]
                    /\ \A j \in 0 .. Last :
                          /\ cmdStdout[j] = cmdStdout[i] => j = i
                          /\ cmdStdin[j] = cmdStdout[i] => j = i + 1
              /\ cmdStdout[i] = "stdout" <=> i = Last
              /\ cmdStderr[i] = "stderr"

\* Two commands wired with the caller's input, one pipe and the caller's
\* output, and the first of them started.
C14_Witness ==
    /\ Pipeline
    /\ n = 2
    /\ hasStdin
    /\ Called("Start", 0)
    /\ cmdStdin[0] = "stdin"
    /\ cmdStdout[0] = PipeName(0)
    /\ cmdStdin[1] = PipeName(0)
    /\ cmdStdout[1] = "stdout"

\* ----------------------------------------------------------------- C15
\* C15 as stated: a cleanup closure calls the kill only when the call is
\* failing, and a stage that its own cmd.Wait has already reaped gets neither
\* the Signal call nor the Process.Wait call.
C15_AsStated ==
    Pipeline =>
        \A i \in Stages :
            /\ Called("Signal", i) => err # "nil"
            /\ WaitCalled(i) => ~Called("Signal", i) /\ ~Called("ProcessWait", i)

\* C15: a cleanup closure calls Signal(SIGKILL) and Process.Wait only when the
\* call is failing and the stage has a process handle; whether the process is
\* still alive is not tested.  When a failing call has returned, a stage that
\* its own cmd.Wait had already reaped has had both calls made on it by its
\* closure, and both were without effect: the signal was not delivered, the
\* exit status is the one the process exited with, and the stage is reaped.
C15_CleanupIgnoresLiveness ==
    Pipeline =>
        \A i \in Stages :
            /\ (err = "nil" \/ ~process[i]) => ~Called("Signal", i)
            /\ (PLReturned /\ ret # Nil /\ WaitCalled(i)) =>
                  /\ Called("Signal", i)
                  /\ Called("ProcessWait", i)
                  /\ At("Signal", i) > At("Wait", i) + At("WaitFail", i)
                  /\ ~killSent[i]
                  /\ exitStatus[i] # "killed"
                  /\ procState[i] = "reaped"

\* Stage 0 exited with success and was reaped by its cmd.Wait, a later Wait
\* failed, and the closure of stage 0 made its two calls without effect.
C15_Witness ==
    /\ PLReturned
    /\ Called("Wait", 0)
    /\ Called("WaitFail", 1)
    /\ At("ProcessWait", 0) > At("Wait", 0)
    /\ ~killSent[0]
    /\ exitStatus[0] = "ok"

\* ----------------------------------------------------------------- C16
\* The position in the log of the call that made ExecPipeline fail, 0 if none.
FailureAt ==
    IF \E k \in Stages : Called("StartFail", k) \/ Called("WaitFail", k)
    THEN Min({ j \in 1 .. Len(calls) : calls[j][1] \in {"StartFail", "WaitFail"} })
    ELSE 0

\* C16: the closures test the failure state the call has when it exits.  No
\* Signal call is made and no kill signal is delivered while the call is not
\* failing, so none at all when it returns success.  When the call has
\* returned a failure of a Start or a Wait, every stage whose closure was
\* deferred before that failure, when there was none, has had Signal called
\* on it after the failure, and the signal was delivered unless the stage's
\* own Wait had reaped it.
C16_KillDecidedAtExit ==
    Pipeline =>
        /\ (err = "nil" \/ (PLReturned /\ ret = Nil)) =>
              /\ \A i \in Stages : ~killSent[i]
              /\ \A j \in 1 .. Len(calls) : calls[j][1] # "Signal"
        /\ (PLReturned /\ ret # Nil) =>
              LET f == FailureAt
              IN  f > 0 =>
                     \A i \in Stages :
                         (process[i] /\ At("Start", i) < f) =>
                             /\ At("Signal", i) > f
                             /\ WaitCalled(i) \/ killSent[i]

\* The Start of stage 1 failed after the closure of stage 0 was deferred, and
\* stage 0 was killed when the call returned.
C16_Witness ==
    /\ PLReturned
    /\ Called("StartFail", 1)
    /\ At("Start", 0) < FailureAt
    /\ At("Signal", 0) > FailureAt
    /\ killSent[0]

\* ----------------------------------------------------------------- C17
\* The calls made on the process of a stage.
ProcessOps == {"Wait", "WaitFail", "Signal", "ProcessWait"}

\* C17: every Wait, Signal and Process.Wait call of ExecPipeline is made on a
\* stage after its Start succeeded.  A stage whose Start failed or was never
\* attempted has no process, none of these calls is made on it, no kill signal
\* reaches it, and no cleanup closure is deferred for it.
C17_OnlyStartedStagesAreTouched ==
    Pipeline =>
        /\ \A j \in 1 .. Len(calls) :
              calls[j][1] \in ProcessOps =>
                  /\ Called("Start", calls[j][2])
                  /\ At("Start", calls[j][2]) < j
        /\ \A i \in Stages :
              ~Called("Start", i) =>
                  /\ ~process[i]
                  /\ procState[i] = "none"
                  /\ ~killSent[i]
                  /\ \A j \in 1 .. Len(calls) :
                        calls[j][1] \in ProcessOps => calls[j][2] # i
                  /\ \A j \in 1 .. Len(defers) : defers[j] # i

\* The Start of stage 1 failed; the call returned after cleaning up stage 0
\* and left stage 1 alone.
C17_Witness ==
    /\ PLReturned
    /\ Called("StartFail", 1)
    /\ Called("ProcessWait", 0)
    /\ procState[1] = "none"
    /\ \A op \in ProcessOps : ~Called(op, 1)

\* ----------------------------------------------------------------- C18
\* The calls the cleanup closures made, in the order they were made, and the
\* number of stages that were started (they are the stages 0 .. NStarted - 1).
IsCleanupCall(c) == c[1] \in {"Signal", "ProcessWait"}
CleanupCalls == SelectSeq(calls, IsCleanupCall)
NStarted == Cardinality({ i \in Stages : process[i] })

\* C18: the closures run from the stage started last to the stage started
\* first; each one calls Signal and then Process.Wait on its stage, and
\* Process.Wait has returned before the next closure makes a call; no other
\* call of ExecPipeline comes between or after them; and when a failing call
\* has returned each started stage has had exactly one such pair of calls and
\* no closure is left to run.
C18_CleanupInReverseOrder ==
    Pipeline =>
        LET c == CleanupCalls
            m == NStarted
        IN  /\ Len(c) <= 2 * m
            /\ \A j \in 1 .. Len(c) :
                  /\ c[j] = << (IF j % 2 = 1 THEN "Signal" ELSE "ProcessWait"),
                               m - ((j + 1) \div 2) >>
                  /\ calls[Len(calls) - Len(c) + j] = c[j]
            /\ \A j, k \in 1 .. Len(defers) :
                  /\ process[defers[j]]
                  /\ j < k => defers[j] > defers[k]
            /\ PLReturned => defers = << >>
            /\ (PLReturned /\ ret # Nil) => Len(c) = 2 * m

\* Two stages were started and a failing call has returned: stage 1 was
\* signalled and reaped, then stage 0.
C18_Witness ==
    /\ PLReturned
    /\ ret # Nil
    /\ CleanupCalls = << <<"Signal", 1>>, <<"ProcessWait", 1>>,
                         <<"Signal", 0>>, <<"ProcessWait", 0>> >>

====
